---- MODULE Spec2Model ----
(***************************************************************************)
(* Model of src/app.py: the Streamlit Q&A front-end that sends the HR CSV  *)
(* and a user question to the Mistral chat-completion endpoint.            *)
(*                                                                         *)
(* One script run is the sequence Startup, LoadAndCheck, RenderInput,      *)
(* then either EmptyQuestion, or SendPrompt followed by DisplayResponse,   *)
(* then RenderTail.  Between runs the user types, clicks or reloads; each event  *)
(* makes Streamlit run the script again from its first line.               *)
(*                                                                         *)
(* Texts (messages, answers, string bodies) are sequences of tokens, so    *)
(* that Python's substring test `x in text` is token membership.           *)
(***************************************************************************)
EXTENDS Integers, Sequences, FiniteSets, TLC

VARIABLES
    apiKey,        \* MISTRAL_API_KEY as os.getenv returns it
    file,          \* what is on disk at csv_file_path
    cache,         \* st.cache_data's memo of load_data
    pc,            \* position of the script run
    user_input,    \* value of the text area (kept by the session)
    clicked,       \* st.button's value in this run
    data,          \* main's local `data`
    transport,     \* what requests.post did in this run
    response,      \* main's local `response`
    display,       \* elements rendered in this run, in order
    httpCalls,     \* HTTP POSTs issued by the process so far
    submits,       \* button presses with a non-empty question so far
    callsAtStart   \* httpCalls when this run started

vars == <<apiKey, file, cache, pc, user_input, clicked, data,
          transport, response, display, httpCalls, submits, callsAtStart>>

----------------------------------------------------------------------------
(* Bounds *)

MaxSubmits == 2
MaxChoices == 2

(* Program constant: the size-warning threshold of line 96. *)
SizeThreshold == 10000

----------------------------------------------------------------------------
(* Input domains *)

Keys == {"none", "", "sk-key"}

Questions == {"", "how many rows?", "average age?"}

Msgs == { <<"timeout">>, <<"code", "context_length_exceeded">> }

Contents == { <<"42">>, <<"7">> }

Statuses == {200, 300, 500}

Dataset(rows, chars) == [rows |-> rows, chars |-> chars]

EmptyDataFrame == Dataset(0, 1)

CsvFile(d) == [kind |-> "csv", df |-> d]

Files ==
    { [kind |-> k, df |-> EmptyDataFrame] : k \in {"absent", "malformed"} }
    \cup { CsvFile(Dataset(0, 12)), CsvFile(Dataset(3, 40)),
           CsvFile(Dataset(400, SizeThreshold + 1)) }

(* One entry of a `choices` array. *)
Choice(hasMessage, hasContent, content) ==
    [hasMessage |-> hasMessage, hasContent |-> hasContent, content |-> content]

Choices ==
    { Choice(TRUE, TRUE, c) : c \in Contents }
    \cup { Choice(FALSE, FALSE, <<>>), Choice(TRUE, FALSE, <<>>) }

ChoiceLists == UNION { [1..n -> Choices] : n \in 0..MaxChoices }

(* A decoded JSON value (or "notjson": a body json() cannot decode). *)
Json(j, hasError, error, hasChoices, choices, items) ==
    [j |-> j, hasError |-> hasError, error |-> error,
     hasChoices |-> hasChoices, choices |-> choices, items |-> items]

Object(hasError, error, hasChoices, choices) ==
    Json("object", hasError, error, hasChoices, choices, <<>>)

Scalar(j) == Json(j, FALSE, <<>>, FALSE, <<>>, <<>>)

NoResponse == Scalar("unset")

ErrorDict(msg) == Object(TRUE, msg, FALSE, <<>>)

Bodies ==
    { Object(FALSE, <<>>, FALSE, <<>>) }
    \cup { Object(FALSE, <<>>, TRUE, cs) : cs \in ChoiceLists }
    \cup { Object(TRUE, m, FALSE, <<>>) : m \in Msgs }
    \cup { Object(TRUE, m, TRUE, cs) : m \in Msgs, cs \in ChoiceLists }
    \cup { Scalar("null"), Scalar("number"), Scalar("notjson") }
    \cup { Json(j, FALSE, <<>>, FALSE, <<>>, it) :
             j \in {"string", "array"}, it \in { <<>>, <<"hi">>, <<"error">> } }

Transport(t, status, msg, body) ==
    [t |-> t, status |-> status, msg |-> msg, body |-> body]

NoTransport == Transport("none", 0, <<>>, NoResponse)

RaisesForStatus(status) == status >= 400 /\ status < 600

Transports ==
    { Transport("neterr", 0, m, NoResponse) : m \in Msgs }
    \cup { Transport("http", s, m, NoResponse) :
             s \in { x \in Statuses : RaisesForStatus(x) }, m \in Msgs }
    \cup { Transport("http", s, <<>>, b) :
             s \in { x \in Statuses : ~RaisesForStatus(x) },
             b \in { x \in Bodies : x.j # "notjson" } }
    \cup { Transport("http", s, m, Scalar("notjson")) :
             s \in { x \in Statuses : ~RaisesForStatus(x) }, m \in Msgs }

(* A rendered element: the Streamlit call, the source line, its text. *)
El(w, at, text) == [w |-> w, at |-> at, text |-> text]

----------------------------------------------------------------------------
(* Python expressions of the script *)

Contains(text, token) == \E i \in 1..Len(text) : text[i] = token

(* line 14: `not MISTRAL_API_KEY` *)
KeyMissingNever(key) == FALSE

KeyMissing(key) == key \in {"none", ""}

(* line 85: `data.empty` *)
IsEmpty(df) == df.rows = 0

(* line 96: `len(data_as_string) > 10000` *)
TooLong(df) == df.chars > SizeThreshold

(* line 105: `if user_input` *)
QuestionGivenAlways(q) == TRUE

QuestionGiven(q) == q # ""

(* lines 64-65: the call raises a RequestException (connection failure,
   or raise_for_status on a 4xx/5xx status). *)
RequestFails(tr) ==
    \/ tr.t = "neterr"
    \/ tr.t = "http" /\ RaisesForStatus(tr.status)

(* line 66: response.json() cannot decode the body and raises
   requests.exceptions.JSONDecodeError, a RequestException. *)
DecodeFails(tr) == ~RequestFails(tr) /\ tr.body.j = "notjson"

(* line 64: one requests.post per call of send_prompt_to_mistral. *)
CallsAfterRetry(n, tr) == IF RequestFails(tr) THEN n + 2 ELSE n + 1

CallsAfter(n, tr) == n + 1

(* line 112: `"error" in response` raises TypeError on None and numbers. *)
InRaises(r) == r.j \in {"null", "number"}

(* line 112: `"error" in response`: key of a dict, element of a list,
   substring of a string. *)
HasErrorKeyNever(r) == FALSE

HasErrorKey(r) ==
    IF r.j = "object" THEN r.hasError ELSE Contains(r.items, "error")

(* line 114: `"context_length_exceeded" in str(response.get('error', ''))` *)
IndicatesAlways(msg) == TRUE

Indicates(msg) == Contains(msg, "context_length_exceeded")

(* line 117: truth value of `response`.  The objects of the model carry no
   other keys than error and choices; a dict with other keys only is
   truthy and has no choices, and takes the same branch as {}. *)
Truthy(r) ==
    IF r.j = "object" THEN r.hasError \/ r.hasChoices ELSE Len(r.items) > 0

(* line 117: `response.get('choices')` is truthy. *)
ChoicesGivenIfKey(r) == r.hasChoices

ChoicesGiven(r) == r.hasChoices /\ Len(r.choices) > 0

(* line 118: `response['choices'][0]` *)
LastChoice(choices) == choices[Len(choices)]

FirstChoice(choices) == choices[1]

(* line 118: `[0]` raises IndexError on an empty list. *)
IndexRaises(choices) == Len(choices) = 0

(* line 118: `['message']['content']` raises KeyError on a missing key. *)
ContentRaises(choice) == ~choice.hasMessage \/ ~choice.hasContent

----------------------------------------------------------------------------
(* The script *)

(* A rerun clears the page and the locals. *)
BeginRun ==
    /\ pc' = "start"
    /\ display' = <<>>
    /\ data' = EmptyDataFrame
    /\ transport' = NoTransport
    /\ response' = NoResponse
    /\ callsAtStart' = httpCalls

Init ==
    /\ apiKey \in Keys
    /\ file \in Files
    /\ cache = [filled |-> FALSE, df |-> EmptyDataFrame, failed |-> FALSE]
    /\ pc = "start"
    /\ user_input = ""
    /\ clicked = FALSE
    /\ data = EmptyDataFrame
    /\ transport = NoTransport
    /\ response = NoResponse
    /\ display = <<>>
    /\ httpCalls = 0
    /\ submits = 0
    /\ callsAtStart = 0

(* lines 8-16: load the key; stop the script when it is missing. *)
Startup ==
    /\ pc = "start"
    /\ IF KeyMissing(apiKey)
       THEN /\ display' = Append(display, El("error", 15, <<"MISTRAL_API_KEY not found">>))
            /\ pc' = "stopped"
       ELSE /\ display' = display
            /\ pc' = "main"
    /\ UNCHANGED <<apiKey, file, cache, user_input, clicked,
                   data, transport, response, httpCalls, submits, callsAtStart>>

Header == << El("title", 73, <<>>), El("markdown", 75, <<>>) >>

(* lines 73-87: title, load_data through st.cache_data, emptiness check.
   A cached result is returned without running load_data; whether the
   st.error of line 28 is replayed with it depends on the Streamlit
   version.  pd.read_csv's parser errors are not FileNotFoundError and
   leave load_data uncaught; a raising call is not cached. *)
LoadAndCheck ==
    /\ pc = "main"
    /\ \E replay \in BOOLEAN :
         LET hit == cache.filled
             raised == ~hit /\ file.kind = "malformed"
             absent == ~hit /\ file.kind = "absent"
             df == IF hit THEN cache.df
                   ELSE IF file.kind = "csv" THEN file.df ELSE EmptyDataFrame
             fromLoad ==
                 IF absent \/ (hit /\ cache.failed /\ replay)
                 THEN << El("error", 28, <<"file not found">>) >>
                 ELSE <<>>
         IN  IF raised
             THEN /\ display' = display \o Header \o << El("exception", 25, <<"ParserError">>) >>
                  /\ pc' = "crashed"
                  /\ UNCHANGED <<cache, data>>
             ELSE /\ cache' = IF hit THEN cache
                              ELSE [filled |-> TRUE, df |-> df, failed |-> absent]
                  /\ data' = df
                  /\ IF IsEmpty(df)
                     THEN /\ display' = display \o Header \o fromLoad
                                        \o << El("warning", 86, <<"Could not load data">>) >>
                          /\ pc' = "done"
                     ELSE /\ display' = display \o Header \o fromLoad
                          /\ pc' = "widgets"
    /\ UNCHANGED <<apiKey, file, user_input, clicked,
                   transport, response, httpCalls, submits, callsAtStart>>

(* lines 92-104: serialise, size warning, text area, button. *)
RenderInput ==
    /\ pc = "widgets"
    /\ display' = display
                  \o (IF TooLong(data) THEN << El("warning", 97, <<"dataset is large">>) >> ELSE <<>>)
                  \o << El("text_area", 101, <<>>), El("button", 104, <<>>) >>
    /\ pc' = IF clicked THEN "clicked" ELSE "tail"
    /\ UNCHANGED <<apiKey, file, cache, user_input, clicked,
                   data, transport, response, httpCalls, submits, callsAtStart>>

(* lines 122-123: the button was pressed with no question. *)
EmptyQuestion ==
    /\ pc = "clicked"
    /\ ~QuestionGiven(user_input)
    /\ display' = Append(display, El("write", 123, <<"Please enter a question or query.">>))
    /\ pc' = "tail"
    /\ UNCHANGED <<apiKey, file, cache, user_input, clicked,
                   data, transport, response, httpCalls, submits, callsAtStart>>

(* lines 105-108 and 32-69: send_prompt_to_mistral.  One POST; a
   RequestException (which the JSON decode error of response.json() is) is
   shown and returned as {"error": str(e)}. *)
SendPrompt ==
    /\ pc = "clicked"
    /\ QuestionGiven(user_input)
    /\ \E tr \in Transports :
         /\ transport' = tr
         /\ httpCalls' = CallsAfter(httpCalls, tr)
         /\ IF RequestFails(tr) \/ DecodeFails(tr)
            THEN /\ display' = Append(display, El("error", 68, <<"API Request Error:">> \o tr.msg))
                 /\ response' = ErrorDict(tr.msg)
            ELSE /\ display' = display
                 /\ response' = tr.body
    /\ pc' = "display"
    /\ UNCHANGED <<apiKey, file, cache, user_input, clicked,
                   data, submits, callsAtStart>>

Raise(at, what) ==
    /\ display' = display \o << El("subheader", 111, <<>>), El("exception", at, <<what>>) >>
    /\ pc' = "crashed"

Show(els) ==
    /\ display' = display \o << El("subheader", 111, <<>>) >> \o els
    /\ pc' = "tail"

(* lines 111-121: display the API response. *)
DisplayResponse ==
    /\ pc = "display"
    /\ LET r == response IN
         IF InRaises(r) THEN Raise(112, "TypeError")
         ELSE IF HasErrorKey(r)
         THEN IF r.j # "object" THEN Raise(113, "AttributeError")
              ELSE Show(<< El("error", 113, <<"Error from API:">> \o r.error) >>
                        \o (IF Indicates(r.error)
                            THEN << El("info", 115, <<"context window exceeded">>) >>
                            ELSE <<>>))
         ELSE IF Truthy(r) /\ r.j # "object" THEN Raise(117, "AttributeError")
         ELSE IF Truthy(r) /\ ChoicesGiven(r)
         THEN IF IndexRaises(r.choices) THEN Raise(118, "IndexError")
              ELSE IF ContentRaises(FirstChoice(r.choices)) THEN Raise(118, "KeyError")
              ELSE Show(<< El("write", 118, FirstChoice(r.choices).content) >>)
         ELSE Show(<< El("write", 120, <<"No valid response received from the API.">>),
                      El("json", 121, <<>>) >>)
    /\ UNCHANGED <<apiKey, file, cache, user_input, clicked,
                   data, transport, response, httpCalls, submits, callsAtStart>>

(* lines 125-129: divider and raw-data expander. *)
RenderTail ==
    /\ pc = "tail"
    /\ display' = display \o << El("divider", 125, <<>>), El("dataframe", 129, <<>>) >>
    /\ pc' = "done"
    /\ UNCHANGED <<apiKey, file, cache, user_input, clicked,
                   data, transport, response, httpCalls, submits, callsAtStart>>

----------------------------------------------------------------------------
(* User events; each makes Streamlit run the script again. *)

Resting == pc \in {"done", "stopped", "crashed"}

Rendered(w) == \E i \in 1..Len(display) : display[i].w = w

(* line 101: the user edits the text area. *)
TypeQuestion ==
    /\ Resting
    /\ Rendered("text_area")
    /\ \E q \in Questions \ {user_input} : user_input' = q
    /\ clicked' = FALSE
    /\ BeginRun
    /\ UNCHANGED <<apiKey, file, cache, httpCalls, submits>>

(* line 104: the user presses the button. *)
ClickButton ==
    /\ Resting
    /\ Rendered("button")
    /\ QuestionGiven(user_input) => submits < MaxSubmits
    /\ clicked' = TRUE
    /\ submits' = IF QuestionGiven(user_input) THEN submits + 1 ELSE submits
    /\ BeginRun
    /\ UNCHANGED <<apiKey, file, cache, user_input, httpCalls>>

(* lines 131-132: the page is loaded anew, with a fresh session. *)
Reload ==
    /\ Resting
    /\ user_input' = ""
    /\ clicked' = FALSE
    /\ BeginRun
    /\ UNCHANGED <<apiKey, file, cache, httpCalls, submits>>

Next ==
    \/ Startup
    \/ LoadAndCheck
    \/ RenderInput
    \/ EmptyQuestion
    \/ SendPrompt
    \/ DisplayResponse
    \/ RenderTail
    \/ TypeQuestion
    \/ ClickButton
    \/ Reload

Spec == Init /\ [][Next]_vars

----------------------------------------------------------------------------
(* Observations on a run *)

Shown(w, at) == \E i \in 1..Len(display) : display[i].w = w /\ display[i].at = at

ShownText(w, at, text) == \E i \in 1..Len(display) : display[i] = El(w, at, text)

Count(w, at) == Cardinality({ i \in 1..Len(display) : display[i].w = w /\ display[i].at = at })

(* send_prompt_to_mistral was called in this run and the display of its
   result is over (rendered, or ended by an exception). *)
AskEnded == transport # NoTransport /\ pc \in {"tail", "done", "crashed"}

AskRendered == transport # NoTransport /\ pc \in {"tail", "done"}

NoopPrompt == El("write", 123, <<"Please enter a question or query.">>)

ContextToken == "context_length_exceeded"

ErrorDisplays == Count("error", 68) + Count("error", 113) + Count("write", 120)

AnswerDisplays == Count("write", 118)

SecretAbsent == apiKey \in {"none", ""}

Is2xx(status) == status >= 200 /\ status < 300

----------------------------------------------------------------------------
(* C1: a button press with an empty question renders the prompt asking
   for a question and issues no HTTP call in that run, whatever the
   dataset and however many submissions came before. *)
C1_EmptyQuestionIsNoop ==
    (clicked /\ user_input = "" /\ pc \in {"tail", "done", "display", "crashed"})
        => /\ pc \in {"tail", "done"}
           /\ \E i \in 1..Len(display) : display[i] = NoopPrompt
           /\ httpCalls = callsAtStart
           /\ transport = NoTransport
           /\ AnswerDisplays = 0 /\ ErrorDisplays = 0

C1_Witness ==
    /\ clicked /\ user_input = "" /\ pc = "done"
    /\ httpCalls > 0
    /\ \E i \in 1..Len(display) : display[i] = NoopPrompt

(* C2: with the secret absent the script stops at the key check: the only
   thing rendered is the message of line 15, no screen element follows
   and no HTTP call is ever issued, whatever the dataset file is. *)
C2_MissingSecretHalts ==
    SecretAbsent
        => /\ pc \in {"start", "stopped"}
           /\ httpCalls = 0
           /\ pc = "stopped" => display = << El("error", 15, <<"MISTRAL_API_KEY not found">>) >>
           /\ pc = "start" => display = <<>>

C2_Witness ==
    /\ SecretAbsent /\ pc = "stopped" /\ file.kind = "malformed"
    /\ Len(display) = 1

(* C3: each submission of a non-empty question issues exactly one HTTP
   call, failed or not: between runs the number of calls equals the number
   of non-empty submissions, and within a run at most the call of the
   pending submission is outstanding. *)
C3_OneCallPerSubmission ==
    /\ httpCalls <= submits
    /\ submits <= httpCalls + 1
    /\ Resting => httpCalls = submits
    /\ AskEnded => httpCalls = callsAtStart + 1

C3_Witness ==
    /\ pc = "done" /\ submits >= 2 /\ httpCalls = submits
    /\ transport.t = "neterr"

(* C4 as stated: after a network error or any status outside 2xx the run
   renders the transport's message as the error, no answer, and never
   reaches line 118. *)
C4_Original ==
    (AskEnded /\ (transport.t = "neterr" \/ (transport.t = "http" /\ ~Is2xx(transport.status))))
        => /\ pc # "crashed"
           /\ ShownText("error", 113, <<"Error from API:">> \o transport.msg)
           /\ AnswerDisplays = 0
           /\ ~Shown("exception", 118)

(* C4 amended: after a network error or a 4xx/5xx status the run renders
   the transport's message as the error, no answer, and never reaches
   line 118. *)
C4_TransportFailureIsError ==
    (AskEnded /\ (transport.t = "neterr"
                  \/ (transport.t = "http" /\ transport.status >= 400 /\ transport.status < 600)))
        => /\ pc # "crashed"
           /\ ShownText("error", 113, <<"Error from API:">> \o transport.msg)
           /\ AnswerDisplays = 0
           /\ ~Shown("exception", 118)
           /\ ~Shown("write", 120)

C4_Witness ==
    /\ pc = "done" /\ transport.t = "http" /\ transport.status = 500
    /\ ShownText("error", 113, <<"Error from API:">> \o transport.msg)

(* The body of a successful call is an object whose choices array is
   non-empty and whose first choice has message.content. *)
BodyHasFirstContent ==
    /\ transport.t = "http" /\ Is2xx(transport.status)
    /\ transport.body.j = "object"
    /\ transport.body.hasChoices
    /\ Len(transport.body.choices) > 0
    /\ transport.body.choices[1].hasMessage
    /\ transport.body.choices[1].hasContent

OnlyFirstContentShown ==
    /\ pc # "crashed"
    /\ AnswerDisplays = 1
    /\ ShownText("write", 118, transport.body.choices[1].content)
    /\ ErrorDisplays = 0

(* C5 as stated: a 2xx body with a non-empty choices array (its first
   element having message.content) is answered with the first choice's
   message.content. *)
C5_Original == (AskEnded /\ BodyHasFirstContent) => OnlyFirstContentShown

(* C5 amended: a 2xx body with no `error` key and a non-empty choices
   array whose first element has message.content is answered with that
   first choice's message.content and with no later choice's, however
   many choices there are. *)
C5_FirstChoiceIsAnswer ==
    (AskEnded /\ BodyHasFirstContent /\ ~transport.body.hasError) => OnlyFirstContentShown

C5_Witness ==
    /\ pc = "done" /\ BodyHasFirstContent /\ ~transport.body.hasError
    /\ Len(transport.body.choices) >= 2
    /\ transport.body.choices[2].hasContent
    /\ transport.body.choices[2].content # transport.body.choices[1].content
    /\ ShownText("write", 118, transport.body.choices[1].content)

(* C6: with the dataset file absent or malformed the run ends without an
   exception, on an empty dataset, with an error shown, no question input
   rendered and no HTTP call. *)
C6_Claim ==
    (file.kind \in {"absent", "malformed"} /\ pc \notin {"start", "stopped", "main"})
        => /\ pc = "done"
           /\ IsEmpty(data)
           /\ Shown("error", 28) \/ Shown("warning", 86)
           /\ ~Rendered("text_area")
           /\ httpCalls = 0

(* C7: a 2xx object body with no `error` key and no choices (key missing
   or empty array) is answered with "No valid response" and no answer
   text. *)
C7_NoChoicesIsError ==
    (AskEnded /\ transport.t = "http" /\ Is2xx(transport.status)
       /\ transport.body.j = "object" /\ ~transport.body.hasError
       /\ (~transport.body.hasChoices \/ Len(transport.body.choices) = 0))
        => /\ pc # "crashed"
           /\ ShownText("write", 120, <<"No valid response received from the API.">>)
           /\ AnswerDisplays = 0
           /\ ~Shown("error", 113)

C7_Witness ==
    /\ pc = "done" /\ transport.t = "http" /\ Is2xx(transport.status)
    /\ transport.body.j = "object" /\ ~transport.body.hasError
    /\ transport.body.hasChoices /\ Len(transport.body.choices) = 0
    /\ Shown("write", 120)

(* C8: the context-length hint is shown exactly with an error whose
   message contains the context-length token: it directly follows that
   error message, and never comes with an answer, the empty-question
   prompt, "No valid response", or an error without the token. *)
C8_HintIffContextLength ==
    /\ Shown("info", 115)
         => /\ \E i \in 1..(Len(display) - 1) :
                  /\ display[i].w = "error" /\ display[i].at = 113
                  /\ \E k \in 1..Len(display[i].text) : display[i].text[k] = ContextToken
                  /\ display[i + 1].w = "info"
            /\ Count("info", 115) = 1
            /\ AnswerDisplays = 0
            /\ ~Shown("write", 120)
            /\ ~Shown("write", 123)
    /\ (pc \in {"tail", "done"} /\ Shown("error", 113)
          /\ \E k \in 1..Len(response.error) : response.error[k] = ContextToken)
         => Shown("info", 115)
    /\ (\E i \in 1..Len(display) :
           /\ display[i].w = "error" /\ display[i].at = 113
           /\ \A k \in 1..Len(display[i].text) : display[i].text[k] # ContextToken)
         => ~Shown("info", 115)

C8_Witness ==
    /\ pc = "done" /\ Shown("info", 115)
    /\ transport.t = "http" /\ transport.status = 200
    /\ transport.body.hasError

(* C9: whatever the HTTP call produced, the run ends by rendering an
   answer or an error and raises no exception. *)
C9_Claim ==
    AskEnded
        => /\ pc # "crashed"
           /\ AnswerDisplays + ErrorDisplays >= 1

(* C10: a submission with a non-empty question renders its response
   once: one answer or one error message, never two. *)
C10_Claim ==
    AskRendered => AnswerDisplays + ErrorDisplays = 1

====
